---- MODULE Spec2Model ----
(***************************************************************************)
(* Model of spikeinterface.sorters.basesorter: the folder based handshake  *)
(* between BaseSorter and an external sorter.  One output folder and one   *)
(* sorter class are modelled.  The folder is the state; every classmethod  *)
(* of BaseSorter (and the legacy instance API on top of them) is one       *)
(* action, but for run_from_folder: it waits for the external sorter, so   *)
(* it is one action up to the launch of the sorter and one from the        *)
(* sorter's end, and other calls on the folder may come in between.  Each  *)
(* call records in `last` what it did when it is left: the order of its    *)
(* internal events, the exception that left it, its return value.          *)
(***************************************************************************)
EXTENDS Integers, Sequences, FiniteSets, Bags, TLC

VARIABLES
    cls,        \* class attributes of the sorter class (fixed per behaviour)
    disk,       \* content of output_folder
    inst,       \* the legacy BaseSorter instance: <<>> or <<[params, delete_output_folder]>>
    last,       \* observation of the call that was left most recently
    running,    \* the run_from_folder calls that wait for their sorter: a bag of calls
    returned,   \* history: <<>> or <<dict>> last returned by set_params_to_folder
    lastRun     \* history: outcome of the last run_from_folder that wrote its log

vars == <<cls, disk, inst, last, running, returned, lastRun>>

----------------------------------------------------------------------------
(* Bounds *)

\* run_time (seconds, a float in the code) ranges over 0..MaxRunTime
MaxRunTime == 0
\* recordings have 1..MaxSegments segments
MaxSegments == 2
\* integer parameter values range over 1..MaxInt
MaxInt == 1
\* at most MaxWaiting calls of run_from_folder wait for their sorter at a time
MaxWaiting == 2

----------------------------------------------------------------------------
(* Values *)

\* Python None / a missing file is the empty sequence, a value v is <<v>>.
None == <<>>
Some(v) == <<v>>
IsNone(o) == Len(o) = 0
IsSome(o) == Len(o) = 1
Get(o) == o[1]

\* Python parameter values: an int n, the tuple (1,) or the list [1].
\* (1,) == [1] is False in Python, so the kinds are distinct values.
PyInts == {<<"int", n>> : n \in 1..MaxInt}
PyValues == PyInts \cup {<<"tuple", 1>>, <<"list", 1>>}

\* json.dump (through check_json): int -> number, tuple and list -> array
json_dump_value(v) ==
    IF v[1] = "int" THEN <<"number", v[2]>> ELSE <<"array", v[2]>>

\* json.load: number -> int, array -> list
json_load_value(j) ==
    IF j[1] = "number" THEN <<"int", j[2]>> ELSE <<"list", j[2]>>

json_dump(d) == [k \in DOMAIN d |-> json_dump_value(d[k])]
json_load(t) == [k \in DOMAIN t |-> json_load_value(t[k])]

----------------------------------------------------------------------------
(* The sorter class *)

\* BaseSorter._default_params = {}
DefaultKeys == {}
_default_params == [k \in DefaultKeys |-> <<"int", 1>>]

\* the parameter a subclass declares in its own _default_params
SubclassKeys == {"a"}
SubclassDefaultParams == [k \in SubclassKeys |-> <<"int", 1>>]

\* the keys of default_job_kwargs_description
JobKeys ==
    {"n_jobs", "chunk_size", "chunk_memory", "total_memory", "chunk_duration",
     "progress_bar"}

\* get_global_job_kwargs(): the job keyword arguments merged in when
\* requires_binary_data
get_global_job_kwargs == [k \in JobKeys |-> <<"int", 1>>]

\* a key no sorter class declares
UnknownKeys == {"zz"}

\* dict.update
Update(d, e) == [k \in DOMAIN d \cup DOMAIN e |-> IF k \in DOMAIN e THEN e[k] ELSE d[k]]

\* cls._dynamic_params()[0]: the _default_params of the class
_dynamic_params(c) == c._default_params

default_params(c) ==
    IF c.requires_binary_data
    THEN Update(_dynamic_params(c), get_global_job_kwargs)
    ELSE _dynamic_params(c)

\* _check_params: the base class returns params unchanged
_check_params(params) == params

\* the job keyword arguments a caller overrides: none or all
JobKeySets == {{}, JobKeys}

\* the value a caller gives them: not the global one
JobOverride == <<"int", MaxInt + 1>>

\* the dicts a caller passes as new_params: any value for a parameter some
\* class declares, with or without job keyword arguments, and dicts that
\* hold an unknown key as well
DeclaredParams ==
    {Update(p, j) :
        p \in UNION {[K -> PyValues] : K \in SUBSET (DefaultKeys \cup SubclassKeys)},
        j \in UNION {[K -> {JobOverride}] : K \in JobKeySets}}
NewParams ==
    DeclaredParams \cup
    {Update(p, [k \in UnknownKeys |-> <<"int", 1>>]) :
        p \in UNION {[K -> {<<"int", MaxInt>>}] : K \in SUBSET (DefaultKeys \cup SubclassKeys)}}

\* the class attributes as BaseSorter sets them
BaseAttrs ==
    [requires_locations |-> FALSE,
     handle_multi_segment |-> FALSE,
     requires_binary_data |-> FALSE,
     _default_params |-> _default_params]

\* a subclass that overrides the four of them
OverridingAttrs ==
    [requires_locations |-> TRUE,
     handle_multi_segment |-> TRUE,
     requires_binary_data |-> TRUE,
     _default_params |-> SubclassDefaultParams]

\* a subclass that sets requires_locations only
LocationsAttrs == [BaseAttrs EXCEPT !.requires_locations = TRUE]

ClassAttrs == {BaseAttrs, LocationsAttrs, OverridingAttrs}

\* a recording that passes every check of initialize_folder
GoodRecording ==
    [is_snippets |-> TRUE,             \* isinstance(recording, BaseRecordingSnippets)
     has_locations |-> TRUE,           \* get_channel_locations() is not None
     num_segments |-> 1,               \* get_num_segments()
     serializable |-> "json"]          \* check_serializability: "json", "pickle", "none"

\* recordings handed to initialize_folder: the good one, those that differ
\* from it in one respect, and one of several segments without locations
Recordings ==
    {GoodRecording,
     [GoodRecording EXCEPT !.is_snippets = FALSE],
     [GoodRecording EXCEPT !.has_locations = FALSE],
     [GoodRecording EXCEPT !.has_locations = FALSE, !.num_segments = MaxSegments]}
    \cup {[GoodRecording EXCEPT !.num_segments = n] : n \in 2..MaxSegments}
    \cup {[GoodRecording EXCEPT !.serializable = s] : s \in {"pickle", "none"}}

----------------------------------------------------------------------------
(* The folder *)

\* output_folder does not exist.  sorter_files: what the hook
\* _setup_recording left in sorter_output; sorter_log: the lines of
\* sorter_output/<sorter_name>.log, None without the file.
NoFolder ==
    [dir |-> FALSE, sorter_output |-> FALSE, sorter_files |-> {}, sorter_log |-> None,
     rec |-> "none", params |-> None, log |-> None]

\* output_folder.mkdir(); sorter_output_folder.mkdir()
FreshFolder ==
    [dir |-> TRUE, sorter_output |-> TRUE, sorter_files |-> {}, sorter_log |-> None,
     rec |-> "none", params |-> None, log |-> None]

\* result of one call: the folder afterwards, the exception that left the
\* call ("none": it returned), the return value, the events in order, the
\* sorter_params handed to a hook
Result(d, exc, msg, ret, events, passed) ==
    [disk |-> d, exc |-> exc, msg |-> msg, ret |-> ret, events |-> events,
     passed |-> passed]

Raise(d, exc, msg, events) == Result(d, exc, msg, None, events, None)

----------------------------------------------------------------------------
(* BaseSorter.initialize_folder *)

\* what cls.is_installed() does at line 103: it returns True or False, or,
\* for a class that has not overridden it, the one of BaseSorter raises
\* NotImplementedError
IsInstalled == {"True", "False", "NotImplementedError"}

\* the checks made before the folder is touched: the exception they raise,
\* or "none"
PreChecks(c, installed, recording) ==
    IF installed = "NotImplementedError" THEN "NotImplementedError"
    ELSE IF installed = "False" THEN "Exception"
    ELSE IF ~recording.is_snippets THEN "ValueError"
    ELSE IF c.requires_locations /\ ~recording.has_locations THEN "RuntimeError"
    ELSE "none"

\* the `not` is dropped: the classes that handle several segments are refused
MultiSegmentRefusedIfHandled(c, recording) ==
    recording.num_segments > 1 /\ c.handle_multi_segment

\* a recording of several segments is refused unless the class handles them
MultiSegmentRefused(c, recording) ==
    recording.num_segments > 1 /\ ~c.handle_multi_segment

\* mkdir(exist_ok=True) on the existing folder, without rmtree
MakeFolderExistOk(d) == [d EXCEPT !.dir = TRUE, !.sorter_output = TRUE]

\* shutil.rmtree(output_folder) when it exists, then output_folder.mkdir()
\* and sorter_output_folder.mkdir()
MakeFolder(d) == FreshFolder

\* recording.dump(...): the recording file written for a serializable recording
DumpRecording(d, recording) == [d EXCEPT !.rec = recording.serializable]

initialize_folder(c, d, installed, recording, remove_existing_folder) ==
    LET pre == PreChecks(c, installed, recording) IN
    IF pre = "NotImplementedError" THEN Raise(d, pre, "is_installed", <<>>)
    ELSE IF pre = "Exception" THEN Raise(d, pre, "not installed", <<>>)
    ELSE IF pre = "ValueError" THEN Raise(d, pre, "recording must be a Recording", <<>>)
    ELSE IF pre = "RuntimeError" THEN Raise(d, pre, "locations are required", <<>>)
    ELSE IF d.dir /\ ~remove_existing_folder
    THEN Raise(d, "ValueError", "already exists", <<>>)
    ELSE LET ev == (IF d.dir THEN <<"rmtree">> ELSE <<>>) \o <<"mkdir">> IN
         IF MultiSegmentRefused(c, recording)
         THEN Raise(MakeFolder(d), "ValueError", "multi-segment", ev)
         ELSE IF recording.serializable = "none"
         THEN Raise(MakeFolder(d), "RuntimeError", "not serializable", ev)
         ELSE Result(DumpRecording(MakeFolder(d), recording), "none", "", None,
                     ev \o <<"dump_recording", "return">>, None)

----------------------------------------------------------------------------
(* BaseSorter.set_params_to_folder, _dump_params, setup_recording *)

\* the keys are looked up in new_params itself: none is ever invalid
invalid_parameters_among_new(c, new_params) == DOMAIN new_params \ DOMAIN new_params

\* [k for k in new_params.keys() if k not in valid_parameters]
invalid_parameters(c, new_params) == DOMAIN new_params \ DOMAIN default_params(c)

\* _dump_params: spikeinterface_params.json holds the JSON form of sorter_params
_dump_params(d, sorter_params) == [d EXCEPT !.params = Some(json_dump(sorter_params))]

\* the update is applied the wrong way round: defaults override new_params
MergedParamsDefaultsWin(c, new_params) ==
    _check_params(Update(new_params, default_params(c)))

\* the dict set_params_to_folder builds and returns
MergedParams(c, new_params) == _check_params(Update(default_params(c), new_params))

\* output_folder as the caller gives it: set_params_to_folder does not
\* convert it, and a str has no operator / (line 229)
OutputFolders == {"Path", "str"}

set_params_to_folder(c, d, output_folder, new_params) ==
    IF invalid_parameters(c, new_params) # {}
    THEN Raise(d, "ValueError", "Invalid parameters", <<>>)
    ELSE LET params == MergedParams(c, new_params) IN
         IF output_folder = "str"
         THEN Raise(d, "TypeError", "unsupported operand", <<"_check_params", "_dump_params">>)
         ELSE IF ~d.dir
         THEN Raise(d, "FileNotFoundError", "spikeinterface_params.json",
                    <<"_check_params", "_dump_params">>)
         ELSE Result(_dump_params(d, params), "none", "", Some(params),
                     <<"_check_params", "_dump_params", "return">>, None)

\* the effect of the hook _setup_recording on sorter_output: input files
\* and scripts of the sorter
SetupFiles(d) ==
    IF d.sorter_output THEN [d EXCEPT !.sorter_files = @ \cup {"input"}] ELSE d

\* sorter_params as read back from spikeinterface_params.json
ReadParams(d) == json_load(Get(d.params))

\* what cls._setup_recording does once called: "ok", it returns;
\* "NotImplementedError", the class has not overridden it and the one of
\* BaseSorter raises; "OSError", the hook of the subclass fails
SetupHooks == {"ok", "NotImplementedError", "OSError"}

setup_recording(d, hook) ==
    IF IsNone(d.params)
    THEN Raise(d, "FileNotFoundError", "spikeinterface_params.json", <<>>)
    ELSE IF hook # "ok"
    THEN Result(d, hook, "_setup_recording", None, <<"_setup_recording">>,
                Some(ReadParams(d)))
    ELSE Result(SetupFiles(d), "none", "", None, <<"_setup_recording", "return">>,
                Some(ReadParams(d)))

----------------------------------------------------------------------------
(* BaseSorter.run_from_folder *)

\* what the external sorter does in one invocation: it returns after t
\* seconds, raises an Exception, or is ended by a BaseException that is not
\* an Exception (KeyboardInterrupt, SystemExit); it may write lines to
\* <sorter_name>.log
SorterBehaviours ==
    [outcome : {"returns", "raises", "aborts"}, t : 0..MaxRunTime, writes_log : BOOLEAN]

\* the launcher of the sorter creates <sorter_name>.log, empty, when the
\* sorter starts
SorterStarts(d, creates_log) ==
    IF d.sorter_output /\ creates_log THEN [d EXCEPT !.sorter_log = Some(<<>>)] ELSE d

\* the effect of SorterClass._run_from_folder on sorter_output that this
\* module reads back: the sorter may leave lines in <sorter_name>.log
SorterFiles(d, sb) ==
    IF d.sorter_output /\ sb.writes_log
    THEN [d EXCEPT !.sorter_log = Some(<<"line">>)]
    ELSE d

\* the try / except around SorterClass._run_from_folder, for a sorter that
\* returns or raises an Exception
TryRun(sb) ==
    IF sb.outcome = "returns"
    THEN [has_error |-> FALSE, run_time |-> Some(sb.t), error_trace |-> None]
    ELSE [has_error |-> TRUE, run_time |-> None, error_trace |-> Some("Traceback")]

\* a failing sorter is run a second time
TryEventsRetry(r) ==
    IF r.has_error
    THEN <<"_run_from_folder", "except", "_run_from_folder", "except">>
    ELSE <<"_run_from_folder">>

\* the events of the try / except: one invocation, never repeated
TryEvents(r) ==
    <<"_run_from_folder">> \o (IF r.has_error THEN <<"except">> ELSE <<>>)

\* runtime_trace_path.is_file(): the sorter left <sorter_name>.log
HasRuntimeTrace(d) == d.sorter_output /\ IsSome(d.sorter_log)

\* the lines read from <sorter_name>.log, [] without the file
RuntimeTrace(d) == IF HasRuntimeTrace(d) THEN Get(d.sorter_log) ELSE <<>>

\* the log dict dumped to spikeinterface_log.json
RunLog(r, runtime_trace) ==
    [error |-> r.has_error, run_time |-> r.run_time, error_trace |-> r.error_trace,
     runtime_trace |-> runtime_trace]

\* the log is dumped on the success path only
WriteLogUnlessError(d, log) == IF log.error THEN d ELSE [d EXCEPT !.log = Some(log)]

\* the log file is opened in exclusive mode: an existing log is kept
WriteLogOnce(d, log) == IF IsSome(d.log) THEN d ELSE [d EXCEPT !.log = Some(log)]

\* json.dump(check_json(log), f) on spikeinterface_log.json
WriteLog(d, log) == [d EXCEPT !.log = Some(log)]

\* raise_error is ignored
ShouldRaiseAnyError(has_error, raise_error) == has_error

\* if has_error and raise_error
ShouldRaise(has_error, raise_error) == has_error /\ raise_error

\* what stands between the params file and the sorter: "ok";
\* "KeyError", sorter_dict has no class of the sorter_name in the file;
\* "NotImplementedError", the class has not overridden get_sorter_version
\* and the one of BaseSorter raises
SorterLookups == {"ok", "KeyError", "NotImplementedError"}

\* run_from_folder up to the call of SorterClass._run_from_folder: the
\* params file is opened and read, the class looked up, the log begun
run_from_folder_call(d, raise_error, lookup) ==
    IF IsNone(d.params)
    THEN Raise(d, "FileNotFoundError", "spikeinterface_params.json", <<>>)
    ELSE IF lookup = "KeyError"
    THEN Raise(d, "KeyError", "sorter_name", <<>>)
    ELSE IF lookup = "NotImplementedError"
    THEN Raise(d, "NotImplementedError", "get_sorter_version", <<>>)
    ELSE Result(d, "none", "", None, <<>>, Some(ReadParams(d)))

\* the call that waits for the sorter: its raise_error, the sorter_params
\* it read, the method that made it and the events of that method so far
RunCall(op, raise_error, sorter_params, events) ==
    [op |-> op, raise_error |-> raise_error, sorter_params |-> sorter_params,
     events |-> events]

\* run_from_folder from the end of SorterClass._run_from_folder: d is the
\* folder as it is by then, call the waiting call, sb what the sorter did
run_from_folder(d, call, sb) ==
    LET d1 == SorterFiles(d, sb)
        passed == Some(call.sorter_params)
    IN IF sb.outcome = "aborts"
       THEN Result(d1, "BaseException", "", None,
                   call.events \o <<"_run_from_folder", "abort">>, passed)
       ELSE LET r == TryRun(sb)
                d2 == WriteLog(d1, RunLog(r, RuntimeTrace(d1)))
                ev == call.events \o TryEvents(r) \o <<"write_log">>
            IN IF ShouldRaise(r.has_error, call.raise_error)
               THEN Result(d2, "SpikeSortingError", "Spike sorting error trace", None,
                           ev \o <<"raise">>, passed)
               ELSE Result(d2, "none", "", r.run_time, ev \o <<"return">>, passed)

----------------------------------------------------------------------------
(* BaseSorter.get_result_from_folder, load_recording_from_folder, is_log_ok *)

\* load_recording_from_folder: `recording` is bound only when one of the two
\* recording files exists
RecordingBound(d) == d.rec \in {"json", "pickle"}

\* bool(log["error"])
LogHasError(log) == log.error

get_result_from_folder(d, register_recording, sorting_info, hook_ok) ==
    IF IsNone(d.log)
    THEN Raise(d, "SpikeSortingError", "Get result error", <<>>)
    ELSE IF LogHasError(Get(d.log))
    THEN Raise(d, "SpikeSortingError", "Spike sorting error trace", <<>>)
    ELSE IF ~hook_ok
    THEN Raise(d, "SorterHookError", "_get_result_from_folder", <<"_get_result_from_folder">>)
    ELSE IF register_recording /\ ~RecordingBound(d)
    THEN Raise(d, "UnboundLocalError", "recording", <<"_get_result_from_folder">>)
    ELSE IF sorting_info /\ IsNone(d.params)
    THEN Raise(d, "FileNotFoundError", "spikeinterface_params.json",
               <<"_get_result_from_folder">>)
    ELSE Result(d, "none", "", None, <<"_get_result_from_folder", "return">>, None)

\* the truth value of run_time is tested instead of `is not None`
RunTimeTruthy(log) == IsSome(log.run_time) /\ Get(log.run_time) # 0

\* log.get("run_time", None) is not None
RunTimeOk(log) == IsSome(log.run_time)

\* what is_log_ok returns for a folder it can look into: lines 459-465
LogOk(d) == IF IsSome(d.log) THEN RunTimeOk(Get(d.log)) ELSE FALSE

\* is_log_ok does not convert output_folder: a str has no operator /
\* (line 459) and the call is left by TypeError whatever the folder holds
is_log_ok(d, output_folder) ==
    IF output_folder = "str"
    THEN Raise(d, "TypeError", "unsupported operand", <<>>)
    ELSE Result(d, "none", "", Some(LogOk(d)), <<"return">>, None)

----------------------------------------------------------------------------
(* The legacy instance API: __init__, set_params, run, get_result *)

\* positional parameters of setup_recording(cls, recording, output_folder, verbose)
SetupRecordingArity == 3
\* positional arguments run() passes to self.setup_recording
RunSetupCallArgs == 4
\* required parameters of run_from_folder(cls, output_folder, raise_error, verbose)
RunFromFolderArity == 3
\* arguments run() passes to self.run_from_folder
RunFromFolderCallArgs == 2

\* self.setup_recording(self.recording, self.output_folder, self.params, self.verbose)
\* then self.run_from_folder(self.output_folder, raise_error=True), up to
\* the call of the sorter
run(i, d, hook, lookup) ==
    IF IsNone(i.params)
    THEN Raise(d, "AttributeError", "params", <<>>)
    ELSE IF RunSetupCallArgs # SetupRecordingArity
    THEN Raise(d, "TypeError", "setup_recording", <<>>)
    ELSE LET s == setup_recording(d, hook) IN
         IF s.exc # "none" THEN s
         ELSE IF RunFromFolderCallArgs # RunFromFolderArity
         THEN Raise(s.disk, "TypeError", "run_from_folder", <<"_setup_recording">>)
         ELSE LET r == run_from_folder_call(s.disk, TRUE, lookup) IN
              [r EXCEPT !.events = <<"_setup_recording">> \o @]

\* shutil.rmtree(str(self.sorter_folder), ignore_errors=True)
RemoveSorterFolder(d) ==
    [d EXCEPT !.sorter_output = FALSE, !.sorter_files = {}, !.sorter_log = None]

get_result(i, d, hook_ok) ==
    LET r == get_result_from_folder(d, TRUE, TRUE, hook_ok) IN
    IF r.exc = "none" /\ i.delete_output_folder
    THEN [r EXCEPT !.disk = RemoveSorterFolder(r.disk)]
    ELSE r

----------------------------------------------------------------------------
(* State machine *)

\* the arguments of a call that `last` keeps
NoArgs ==
    [raise_error |-> FALSE, sorting_info |-> FALSE, remove_existing_folder |-> FALSE,
     new_params |-> None, num_segments |-> 0, output_folder |-> None]

Has(events, e) == \E n \in 1..Len(events) : events[n] = e
Count(events, e) == Cardinality({n \in 1..Len(events) : events[n] = e})
\* every e1 comes before every e2
Before(events, e1, e2) ==
    \A m, n \in 1..Len(events) : (events[m] = e1 /\ events[n] = e2) => m < n

\* what `last` keeps of a call
Observe(op, r, args) ==
    [op |-> op, exc |-> r.exc, msg |-> r.msg, events |-> r.events,
     ret |-> IF op = "run_from_folder" THEN r.ret ELSE None,
     passed |-> r.passed, ok |-> FALSE, args |-> args]

\* the outcome of the last run that wrote its log: "failed", "ok", or
\* "recovered" for a success that follows a failure on the same folder
RunOutcome(r, before) ==
    IF Has(r.events, "write_log")
    THEN (IF Has(r.events, "except") THEN "failed"
          ELSE IF before \in {"failed", "recovered"} THEN "recovered"
          ELSE "ok")
    ELSE before

\* a folder made anew has seen no run
FolderOutcome(r, before) == IF Has(r.events, "mkdir") THEN "none" ELSE before

\* a folder made anew has been given no parameters
FolderParams(r, before) == IF Has(r.events, "mkdir") THEN None ELSE before

Start ==
    /\ inst = None
    /\ last = Observe("none", Raise(NoFolder, "none", "", <<>>), NoArgs)
    /\ running = EmptyBag
    /\ returned = None
    /\ lastRun = "none"

\* a class that declares no parameter; the output folder does not exist
\* when the program starts
Init == Start /\ cls = LocationsAttrs /\ disk = NoFolder

InitializeFolder ==
    \E installed \in IsInstalled, recording \in Recordings, remove \in BOOLEAN :
        LET r == initialize_folder(cls, disk, installed, recording, remove) IN
        /\ disk' = r.disk
        /\ last' = Observe("initialize_folder", r,
                           [NoArgs EXCEPT !.remove_existing_folder = remove,
                                          !.num_segments = recording.num_segments])
        /\ lastRun' = FolderOutcome(r, lastRun)
        /\ returned' = FolderParams(r, returned)
        /\ UNCHANGED <<cls, inst, running>>

SetParamsToFolderOf(Folders) ==
    \E output_folder \in Folders, new_params \in NewParams :
        LET r == set_params_to_folder(cls, disk, output_folder, new_params) IN
        /\ disk' = r.disk
        /\ last' = Observe("set_params_to_folder", r,
                           [NoArgs EXCEPT !.new_params = Some(new_params)])
        /\ returned' = IF r.exc = "none" THEN r.ret ELSE returned
        /\ UNCHANGED <<cls, inst, running, lastRun>>

SetParamsToFolder == SetParamsToFolderOf(OutputFolders)

SetupRecording ==
    \E hook \in SetupHooks :
        LET r == setup_recording(disk, hook) IN
        /\ disk' = r.disk
        /\ last' = Observe("setup_recording", r, NoArgs)
        /\ UNCHANGED <<cls, inst, running, returned, lastRun>>

\* run_from_folder is called: it is left at once when the params file is
\* missing or the sorter class cannot be had, else the sorter is launched
\* and the call waits for it.  The arguments and the sorter are drawn from
\* the given sets.
RunFromFolderOf(RaiseErrors, Lookups, CreatesLog) ==
    \E raise_error \in RaiseErrors, lookup \in Lookups, creates_log \in CreatesLog :
        LET r == run_from_folder_call(disk, raise_error, lookup) IN
        IF r.exc # "none"
        THEN /\ last' = Observe("run_from_folder", r,
                                [NoArgs EXCEPT !.raise_error = raise_error])
             /\ UNCHANGED <<cls, disk, inst, running, returned, lastRun>>
        ELSE /\ BagCardinality(running) < MaxWaiting
             /\ running' = running (+) SetToBag({RunCall("run_from_folder", raise_error,
                                                         Get(r.passed), r.events)})
             /\ disk' = SorterStarts(disk, creates_log)
             /\ UNCHANGED <<cls, inst, last, returned, lastRun>>

RunFromFolder == RunFromFolderOf(BOOLEAN, SorterLookups, BOOLEAN)

\* the sorter of a waiting call ends: the call reads the sorter's log,
\* writes spikeinterface_log.json and is left.  What the sorter did is
\* drawn from the given set.
SorterReturnsOf(Behaviours) ==
    \E call \in BagToSet(running), sb \in Behaviours :
        LET r == run_from_folder(disk, call, sb) IN
        /\ disk' = r.disk
        /\ last' = Observe(call.op, r, [NoArgs EXCEPT !.raise_error = call.raise_error])
        /\ lastRun' = RunOutcome(r, lastRun)
        /\ running' = running (-) SetToBag({call})
        /\ UNCHANGED <<cls, inst, returned>>

SorterReturns == SorterReturnsOf(SorterBehaviours)

GetResultFromFolder ==
    \E register_recording \in BOOLEAN, sorting_info \in BOOLEAN, hook_ok \in BOOLEAN :
        LET r == get_result_from_folder(disk, register_recording, sorting_info, hook_ok) IN
        /\ disk' = r.disk
        /\ last' = Observe("get_result_from_folder", r,
                           [NoArgs EXCEPT !.sorting_info = sorting_info])
        /\ UNCHANGED <<cls, inst, running, returned, lastRun>>

IsLogOk ==
    \E output_folder \in OutputFolders :
        LET r == is_log_ok(disk, output_folder) IN
        /\ last' = [Observe("is_log_ok", r,
                            [NoArgs EXCEPT !.output_folder = Some(output_folder)])
                        EXCEPT !.ok = IF r.exc = "none" THEN Get(r.ret) ELSE FALSE]
    /\ UNCHANGED <<cls, disk, inst, running, returned, lastRun>>

\* BaseSorter(recording, output_folder, verbose, remove_existing_folder, delete_output_folder)
Construct ==
    \E installed \in IsInstalled, recording \in Recordings, remove \in BOOLEAN,
       delete_output_folder \in BOOLEAN :
        LET r == initialize_folder(cls, disk, installed, recording, remove) IN
        /\ disk' = r.disk
        /\ inst' = IF r.exc = "none"
                   THEN Some([params |-> None, delete_output_folder |-> delete_output_folder])
                   ELSE inst
        /\ last' = Observe("__init__", r,
                           [NoArgs EXCEPT !.remove_existing_folder = remove,
                                          !.num_segments = recording.num_segments])
        /\ lastRun' = FolderOutcome(r, lastRun)
        /\ returned' = FolderParams(r, returned)
        /\ UNCHANGED <<cls, running>>

SetParams ==
    /\ IsSome(inst)
    /\ \E sorter_params \in NewParams :
        LET r == set_params_to_folder(cls, disk, "Path", sorter_params) IN
        /\ disk' = r.disk
        /\ inst' = IF r.exc = "none" THEN Some([Get(inst) EXCEPT !.params = r.ret]) ELSE inst
        /\ last' = Observe("set_params", r,
                           [NoArgs EXCEPT !.new_params = Some(sorter_params)])
        /\ returned' = IF r.exc = "none" THEN r.ret ELSE returned
        /\ UNCHANGED <<cls, running, lastRun>>

\* run(): left at once by an exception, else the sorter is launched and
\* the call waits for it
Run ==
    /\ IsSome(inst)
    /\ \E hook \in SetupHooks, lookup \in SorterLookups, creates_log \in BOOLEAN :
        LET r == run(Get(inst), disk, hook, lookup) IN
        IF r.exc # "none"
        THEN /\ disk' = r.disk
             /\ last' = Observe("run", r, [NoArgs EXCEPT !.raise_error = TRUE])
             /\ UNCHANGED <<cls, inst, running, returned, lastRun>>
        ELSE /\ BagCardinality(running) < MaxWaiting
             /\ running' = running (+) SetToBag({RunCall("run", TRUE, Get(r.passed),
                                                         r.events)})
             /\ disk' = SorterStarts(r.disk, creates_log)
             /\ UNCHANGED <<cls, inst, last, returned, lastRun>>

GetResult ==
    /\ IsSome(inst)
    /\ \E hook_ok \in BOOLEAN :
        LET r == get_result(Get(inst), disk, hook_ok) IN
        /\ disk' = r.disk
        /\ last' = Observe("get_result", r, [NoArgs EXCEPT !.sorting_info = TRUE])
        /\ UNCHANGED <<cls, inst, running, returned, lastRun>>

\* the folder based API: the classmethods and is_log_ok
Next ==
    \/ InitializeFolder
    \/ SetParamsToFolder
    \/ SetupRecording
    \/ RunFromFolder
    \/ SorterReturns
    \/ GetResultFromFolder
    \/ IsLogOk

Spec == Init /\ [][Next]_vars

\* the legacy instance API, with the classmethods that run the sorter and
\* read its result
NextLegacy ==
    \/ Construct
    \/ SetParams
    \/ Run
    \/ GetResult
    \/ RunFromFolder
    \/ SorterReturns
    \/ GetResultFromFolder

SpecLegacy == Init /\ [][NextLegacy]_vars

\* the subclass that declares parameters, on a folder that
\* initialize_folder has made: how the parameters reach the sorter
InitSubclass ==
    /\ Start
    /\ cls = OverridingAttrs
    /\ disk = DumpRecording(FreshFolder, GoodRecording)

\* sorters that leave no <sorter_name>.log and take no time
PlainSorters == {sb \in SorterBehaviours : sb.t = 0 /\ ~sb.writes_log}

\* run_from_folder(raise_error=True) with such a sorter
RunFromFolderPlain == RunFromFolderOf({TRUE}, SorterLookups, {FALSE})

SorterReturnsPlain == SorterReturnsOf(PlainSorters)

\* set_params_to_folder with the folder given as a Path
SetParamsToFolderPath == SetParamsToFolderOf({"Path"})

NextSubclass ==
    \/ SetParamsToFolderPath
    \/ SetupRecording
    \/ RunFromFolderPlain
    \/ SorterReturnsPlain

SpecSubclass == InitSubclass /\ [][NextSubclass]_vars

\* A folder that was sorted elsewhere and handed over: each file of it is
\* either absent or as the program writes it.
DiskStates(c) ==
    {[dir |-> TRUE, sorter_output |-> so, sorter_files |-> {}, sorter_log |-> None,
      rec |-> rc, params |-> pf, log |-> lg] :
        so \in BOOLEAN, rc \in {"none", "json", "pickle"},
        pf \in {None, Some(json_dump(default_params(c)))},
        lg \in {None} \cup {Some(RunLog(TryRun(sb), <<>>)) :
                                sb \in {b \in SorterBehaviours : b.outcome # "aborts"}}}

InitDisk == Start /\ cls \in ClassAttrs /\ disk \in DiskStates(cls)

NextDisk ==
    \/ SetupRecording
    \/ RunFromFolder
    \/ SorterReturns
    \/ GetResultFromFolder
    \/ IsLogOk

SpecDisk == InitDisk /\ [][NextDisk]_vars

----------------------------------------------------------------------------
(* Properties *)

\* the event through which the last call was left
Left(l) == l.events[Len(l.events)]

IsRun == last.op = "run_from_folder"
\* the sorter raised an Exception
SorterRaised == Has(last.events, "except")
\* the sorter was ended by a BaseException that is not an Exception
SorterAborted == Has(last.events, "abort")
SorterInvoked == Has(last.events, "_run_from_folder")
SorterReturned == SorterInvoked /\ ~SorterRaised /\ ~SorterAborted

\* a step of a call that is not run_from_folder: no sorter is launched and
\* none ends
NoRunStep == running' = running
\* run_from_folder launches the sorter and waits
SorterLaunched == BagCardinality(running') > BagCardinality(running)
\* the sorter of a waiting call ends and the call is left
SorterEnded == BagCardinality(running') < BagCardinality(running)
\* the call that is launched or left in the step
StepCall ==
    CHOOSE c \in BagToSet(running) \cup BagToSet(running') :
        CopiesIn(c, running) # CopiesIn(c, running')

\* C1: whenever the sorter's _run_from_folder raises an Exception inside
\* run_from_folder, spikeinterface_log.json is written with error = true,
\* run_time = null and an error_trace, the write comes before the call is
\* left, and with raise_error the call is left by SpikeSortingError.
C1_ErrorLoggedBeforeRaise ==
    (IsRun /\ SorterRaised) =>
        /\ IsSome(disk.log)
        /\ Get(disk.log).error
        /\ IsNone(Get(disk.log).run_time)
        /\ IsSome(Get(disk.log).error_trace)
        /\ Count(last.events, "write_log") = 1
        /\ Before(last.events, "except", "write_log")
        /\ Before(last.events, "write_log", "raise")
        /\ Before(last.events, "write_log", "return")
        /\ (last.args.raise_error => (last.exc = "SpikeSortingError" /\ Left(last) = "raise"))

C1_Witness ==
    /\ IsRun /\ SorterRaised /\ last.args.raise_error
    /\ last.exc = "SpikeSortingError"
    /\ IsSome(disk.log) /\ Get(disk.log).error

\* the last run that wrote its log decides what is read back
LoggedRunReadBack ==
    /\ lastRun = "failed" =>
        /\ IsSome(disk.log) /\ Get(disk.log).error
        /\ last.op = "get_result_from_folder" =>
            /\ last.exc = "SpikeSortingError"
            /\ last.msg = "Spike sorting error trace"
            /\ ~Has(last.events, "_get_result_from_folder")
            /\ ~Has(last.events, "return")
    /\ lastRun \in {"ok", "recovered"} =>
        /\ IsSome(disk.log) /\ ~Get(disk.log).error
        /\ last.op = "get_result_from_folder" => last.exc # "SpikeSortingError"

\* get_result_from_folder on the folder as it is raises SpikeSortingError
ReadBackRaises == get_result_from_folder(disk, FALSE, FALSE, TRUE).exc = "SpikeSortingError"

\* C2 as stated: what get_result_from_folder reads back is the outcome of
\* the most recent run on the folder: after a run in which the sorter
\* failed get_result_from_folder raises SpikeSortingError without calling
\* _get_result_from_folder or returning; after a later successful run the
\* log is overwritten and get_result_from_folder raises no SpikeSortingError.
C2_FailedRunReadBack ==
    /\ LoggedRunReadBack
    /\ (IsRun /\ (SorterRaised \/ SorterAborted)) => ReadBackRaises

\* C2 as amended: what is read back is the outcome of the most recent run
\* that wrote its log, that is in which the sorter returned or raised an
\* Exception; a run whose sorter is ended by a BaseException that is not an
\* Exception leaves the log as it was.
C2_ResultFollowsLastRun ==
    /\ []LoggedRunReadBack
    /\ [][(SorterEnded /\ Has(last'.events, "abort")) =>
            (disk'.log = disk.log /\ lastRun' = lastRun)]_vars

C2_Witness ==
    /\ lastRun = "recovered"
    /\ last.op = "get_result_from_folder"
    /\ last.exc = "none"
    /\ Has(last.events, "_get_result_from_folder")

\* C4: run_from_folder raises SpikeSortingError exactly when the sorter
\* raised and raise_error is true; with raise_error false a failed run
\* returns None and the log records error = true; a successful run returns
\* a run_time that is not None and writes error = false.
C4_RaiseIffErrorAndRaiseError ==
    IsRun =>
        /\ (last.exc = "SpikeSortingError") <=> (SorterRaised /\ last.args.raise_error)
        /\ (SorterRaised /\ ~last.args.raise_error) =>
            /\ last.exc = "none" /\ Left(last) = "return"
            /\ IsNone(last.ret)
            /\ IsSome(disk.log) /\ Get(disk.log).error
        /\ SorterReturned =>
            /\ last.exc = "none" /\ Left(last) = "return"
            /\ IsSome(last.ret)
            /\ IsSome(disk.log) /\ ~Get(disk.log).error

C4_Witness ==
    /\ IsRun /\ SorterRaised /\ ~last.args.raise_error
    /\ last.exc = "none" /\ IsNone(last.ret)
    /\ IsSome(disk.log) /\ Get(disk.log).error

\* one synchronous invocation, then one log, then the call is left
OneRunOneLog ==
    /\ Count(last.events, "_run_from_folder") = 1
    /\ Count(last.events, "write_log") = 1
    /\ Before(last.events, "_run_from_folder", "write_log")
    /\ Before(last.events, "except", "write_log")
    /\ Before(last.events, "write_log", Left(last))
    /\ Left(last) \in {"raise", "return"}
    /\ IsSome(disk.log)

\* C7 as stated: each call of run_from_folder invokes the sorter exactly
\* once and writes exactly one log afterwards, before it returns or raises.
C7_EveryCallRunsOnce == IsRun => OneRunOneLog

\* run_from_folder is left at once, the sorter not launched
RunRefused == last'.op = "run_from_folder" /\ NoRunStep /\ IsNone(last'.passed)

\* the exceptions that leave run_from_folder on a folder with a params file
\* before the sorter is called
LookupErrors ==
    {<<"KeyError", "sorter_name">>, <<"NotImplementedError", "get_sorter_version">>}

\* C7 as amended: a call of run_from_folder that reaches the sorter invokes
\* it exactly once, never again after a failure, and writes exactly one log
\* before it returns or raises, unless the sorter is ended by a
\* BaseException that is not an Exception: that one leaves the call with no
\* log written.  The call does not reach the sorter, and writes no log,
\* when the folder has no params file (FileNotFoundError), sorter_dict has
\* no class of the sorter_name (KeyError) or get_sorter_version raises.
C7_PreparedCallRunsOnce ==
    /\ [](IsRun =>
            /\ (IsSome(last.passed) /\ ~SorterAborted) => OneRunOneLog
            /\ (IsSome(last.passed) /\ SorterAborted) =>
                /\ last.exc = "BaseException"
                /\ Count(last.events, "_run_from_folder") = 1
                /\ ~Has(last.events, "write_log")
            /\ IsNone(last.passed) =>
                /\ \/ last.exc = "FileNotFoundError"
                   \/ <<last.exc, last.msg>> \in LookupErrors
                /\ last.events = <<>>)
    /\ [][SorterLaunched => (IsSome(disk.params) /\ disk'.log = disk.log)]_vars
    /\ [][RunRefused =>
            /\ disk' = disk
            /\ last'.exc = "FileNotFoundError" <=> IsNone(disk.params)]_vars
    /\ [][(SorterEnded /\ Has(last'.events, "abort")) => disk'.log = disk.log]_vars

C7_Witness == IsRun /\ SorterRaised /\ OneRunOneLog /\ IsSome(last.passed)

\* in every log error = true exactly when run_time is null, and an
\* error_trace is present exactly when error is true
LogConsistent ==
    IsSome(disk.log) =>
        /\ Get(disk.log).error <=> IsNone(Get(disk.log).run_time)
        /\ Get(disk.log).error <=> IsSome(Get(disk.log).error_trace)

\* the log exists and passes the error check of get_result_from_folder
LogPassesErrorCheck == IsSome(disk.log) /\ ~LogHasError(Get(disk.log))

\* is_log_ok has returned: true exactly when the log exists and passes the
\* error check, hence false without a log
LogOkReturned ==
    /\ last.exc = "none"
    /\ last.ok <=> LogPassesErrorCheck

\* C9 as stated: in every folder state reached through run_from_folder the
\* log has error = true exactly when run_time is null and an error_trace
\* exactly when error is true; is_log_ok returns true exactly when the log
\* exists and passes the error check of get_result_from_folder, and returns
\* false without a log.
C9_LogOkIffNoError ==
    /\ LogConsistent
    /\ last.op = "is_log_ok" => LogOkReturned

\* C9 as amended: the log is as stated; is_log_ok called with the folder as
\* a path object returns true exactly when the log exists and passes the
\* error check of get_result_from_folder, and false without a log; called
\* with the folder as a str it is left by TypeError whatever the folder
\* holds.
C9_LogOkIffNoErrorForPath ==
    /\ LogConsistent
    /\ LogOk(disk) <=> LogPassesErrorCheck
    /\ (last.op = "is_log_ok" /\ last.args.output_folder = Some("Path")) => LogOkReturned
    /\ (last.op = "is_log_ok" /\ last.args.output_folder = Some("str")) =>
            (last.exc = "TypeError" /\ ~Has(last.events, "return"))

C9_Witness ==
    /\ last.op = "is_log_ok" /\ last.ok /\ last.exc = "none"
    /\ last.args.output_folder = Some("Path")
    /\ IsSome(disk.log) /\ Get(disk.log).run_time = Some(0)

\* a hook was handed the sorter_params read from the folder, after
\* set_params_to_folder had returned a dict for this folder
ParamsHandedOver ==
    /\ last.op \in {"setup_recording", "run_from_folder"}
    /\ IsSome(last.passed)
    /\ IsSome(returned)

\* the dict returned by set_params_to_folder is default_params() with every
\* key of new_params overriding its default
ReturnedIsMerge ==
    (last.op = "set_params_to_folder" /\ last.exc = "none") =>
        LET new == Get(last.args.new_params)
            ret == Get(returned)
            def == default_params(cls)
        IN /\ DOMAIN ret = DOMAIN def
           /\ \A k \in DOMAIN ret : ret[k] = IF k \in DOMAIN new THEN new[k] ELSE def[k]

\* a dict as it comes back from JSON: a tuple value is a list
JsonForm(d) ==
    [k \in DOMAIN d |-> IF d[k][1] = "tuple" THEN <<"list", d[k][2]>> ELSE d[k]]

\* the sorter is handed the sorter_params that the call read when it
\* launched it
SorterGetsWhatWasRead == SorterEnded => last'.passed = Some(StepCall.sorter_params)

\* C5 as stated: the sorter_params that setup_recording and run_from_folder
\* hand to the hooks equal the dict returned by set_params_to_folder, which
\* is default_params() overridden by new_params.
C5_ParamsRoundTripEqual ==
    /\ [](last.op = "setup_recording" /\ IsSome(last.passed) =>
            (IsSome(returned) /\ Get(last.passed) = Get(returned)))
    /\ [][SorterLaunched =>
            (IsSome(returned) /\ StepCall.sorter_params = Get(returned))]_vars
    /\ [][SorterGetsWhatWasRead]_vars
    /\ []ReturnedIsMerge

\* C5 as amended: they equal the JSON form of the dict returned by the
\* last set_params_to_folder that had returned when the file was read (a
\* tuple value comes back as a list, ints and lists come back unchanged);
\* run_from_folder reads the file when it is called, before the sorter
\* runs.  The returned dict is default_params() overridden by new_params.
C5_ParamsRoundTripJson ==
    /\ [](last.op = "setup_recording" /\ IsSome(last.passed) =>
            (IsSome(returned) /\ Get(last.passed) = JsonForm(Get(returned))))
    /\ [][SorterLaunched =>
            (IsSome(returned) /\ StepCall.sorter_params = JsonForm(Get(returned)))]_vars
    /\ [][SorterGetsWhatWasRead]_vars
    /\ []ReturnedIsMerge

C5_Witness ==
    /\ ParamsHandedOver
    /\ last.op = "run_from_folder"
    /\ Get(returned)["a"] = <<"tuple", 1>>
    /\ Get(last.passed)["a"] = <<"list", 1>>

\* C6: on an instance whose constructor succeeded, after set_params, run()
\* performs setup_recording and then run_from_folder, and does not raise
\* when the sorter succeeds.
C6_LegacyRunCompletes ==
    (last.op = "run" /\ IsSome(inst) /\ IsSome(Get(inst).params)) =>
        /\ Has(last.events, "_setup_recording")
        /\ SorterInvoked
        /\ ~SorterRaised => last.exc = "none"

\* C3: when get_result_from_folder fails on a missing file it expects
\* (spikeinterface_log.json, or spikeinterface_params.json with
\* sorting_info), it is left by the 'Get result error' SpikeSortingError.
C3_MissingFileIsGetResultError ==
    (/\ last.op = "get_result_from_folder"
     /\ \/ IsNone(disk.log)
        \/ /\ last.args.sorting_info
           /\ IsNone(disk.params)
           /\ last.exc \notin {"SorterHookError", "UnboundLocalError"}
           /\ ~LogHasError(Get(disk.log)))
    => (last.exc = "SpikeSortingError" /\ last.msg = "Get result error")

IsInitFolder == last.op = "initialize_folder"

\* when initialize_folder returns, the folder holds an empty
\* sorter_output and the recording file, nothing else
OnlyRecordingAfterInit ==
    (last'.op = "initialize_folder" /\ NoRunStep /\ last'.exc = "none") =>
        /\ disk'.rec \in {"json", "pickle"}
        /\ disk' = [FreshFolder EXCEPT !.rec = disk'.rec]

\* until a run has written its log in the folder, there is no log and
\* get_result_from_folder raises the 'Get result error'
GetResultErrorUntilRun ==
    lastRun = "none" =>
        /\ IsNone(disk.log)
        /\ last.op = "get_result_from_folder" =>
            (last.exc = "SpikeSortingError" /\ last.msg = "Get result error")

\* an existing folder is replaced only by removing it whole
ExistingFolderRemoved ==
    (last'.op = "initialize_folder" /\ NoRunStep /\ disk.dir /\ disk' # disk) =>
        /\ last'.args.remove_existing_folder
        /\ Has(last'.events, "rmtree")
        /\ Before(last'.events, "rmtree", "mkdir")
        /\ IsNone(disk'.params) /\ IsNone(disk'.log) /\ disk'.sorter_files = {}

\* initialize_folder is called on an existing folder with
\* remove_existing_folder false
RefusedCall ==
    /\ last'.op = "initialize_folder" /\ NoRunStep
    /\ disk.dir /\ ~last'.args.remove_existing_folder

\* C10 as stated: on an existing folder with remove_existing_folder false
\* initialize_folder raises ValueError and leaves the folder unchanged; with
\* remove_existing_folder true the previous folder is removed whole; after
\* a successful call the folder holds only an empty sorter_output and the
\* recording file, and get_result_from_folder raises the 'Get result error'
\* until run_from_folder has run.
C10_ExistingFolderValueError ==
    /\ [][RefusedCall => (last'.exc = "ValueError" /\ disk' = disk)]_vars
    /\ [][ExistingFolderRemoved]_vars
    /\ [][OnlyRecordingAfterInit]_vars
    /\ []GetResultErrorUntilRun

\* the exceptions of the checks made before the folder is looked at
PreCheckErrors ==
    {<<"NotImplementedError", "is_installed">>,
     <<"Exception", "not installed">>,
     <<"ValueError", "recording must be a Recording">>,
     <<"RuntimeError", "locations are required">>}

\* C10 as amended: on an existing folder with remove_existing_folder false
\* initialize_folder raises and leaves the folder unchanged: the exception
\* is ValueError unless is_installed raises (NotImplementedError for a
\* class that has not overridden it), the sorter is not installed
\* (Exception), the recording is not a recording or snippets object
\* (ValueError of that check) or the sorter requires channel locations the
\* recording lacks (RuntimeError). The rest is as stated.
C10_ExistingFolderNeverReused ==
    /\ [][RefusedCall =>
            /\ disk' = disk
            /\ \/ (last'.exc = "ValueError" /\ last'.msg = "already exists")
               \/ <<last'.exc, last'.msg>> \in PreCheckErrors]_vars
    /\ [][ExistingFolderRemoved]_vars
    /\ [][OnlyRecordingAfterInit]_vars
    /\ []GetResultErrorUntilRun

C10_Witness ==
    /\ IsInitFolder /\ last.exc = "none"
    /\ Has(last.events, "rmtree")
    /\ last.args.remove_existing_folder

\* set_params_to_folder is called with a key that default_params() lacks
UnknownKeyCall ==
    /\ last'.op = "set_params_to_folder" /\ NoRunStep
    /\ \E k \in DOMAIN Get(last'.args.new_params) : k \notin DOMAIN default_params(cls)

\* C11: if new_params holds a key that is not a key of default_params(),
\* set_params_to_folder raises ValueError before _check_params or
\* _dump_params runs: spikeinterface_params.json is neither created nor
\* modified, and a params file written earlier keeps its content.
C11_UnknownParameterRejected ==
    [][UnknownKeyCall =>
        /\ last'.exc = "ValueError"
        /\ last'.msg = "Invalid parameters"
        /\ ~Has(last'.events, "_check_params")
        /\ ~Has(last'.events, "_dump_params")
        /\ disk'.params = disk.params
        /\ disk' = disk]_vars

C11_Witness ==
    /\ last.op = "set_params_to_folder"
    /\ last.exc = "ValueError"
    /\ \E k \in DOMAIN Get(last.args.new_params) : k \in UnknownKeys
    /\ IsSome(disk.params)

\* initialize_folder was called, on a class that does not handle several
\* segments, with a recording of more than one segment
MultiSegmentCall ==
    /\ IsInitFolder
    /\ ~cls.handle_multi_segment
    /\ last.args.num_segments > 1

\* the call wrote no recording file: it did not reach recording.dump, and
\* it left the folder as it was or made anew without a recording file
NoRecordingWritten ==
    (last'.op = "initialize_folder" /\ NoRunStep /\ ~cls.handle_multi_segment
        /\ last'.args.num_segments > 1) =>
        /\ ~Has(last'.events, "dump_recording")
        /\ disk' = disk \/ disk' = FreshFolder

\* C12 as stated: for a class that leaves handle_multi_segment False,
\* initialize_folder raises ValueError for any recording of more than one
\* segment and writes no recording file for it.
C12_MultiSegmentValueError ==
    MultiSegmentCall =>
        /\ last.exc = "ValueError"
        /\ ~Has(last.events, "dump_recording")

\* C12 as amended: for such a class and recording initialize_folder always
\* raises and writes no recording file: the exception is ValueError unless
\* is_installed raises (NotImplementedError for a class that has not
\* overridden it), the sorter is not installed (Exception) or requires
\* channel locations the recording lacks (RuntimeError), which are checked
\* first.
C12_MultiSegmentNeverPrepared ==
    /\ [](MultiSegmentCall =>
            /\ \/ (last.exc = "ValueError" /\ last.msg \in {"multi-segment", "already exists"})
               \/ <<last.exc, last.msg>> \in PreCheckErrors
            /\ ~Has(last.events, "dump_recording")
            /\ ~Has(last.events, "return"))
    /\ [][NoRecordingWritten]_vars

C12_Witness ==
    /\ MultiSegmentCall
    /\ last.exc = "ValueError" /\ last.msg = "multi-segment"
    /\ Has(last.events, "mkdir")
    /\ disk.rec = "none"

====
